---- MODULE Spec2Model ----
(***************************************************************************)
(* Model of b_CNN_model_ResNet_wrs_lr.py: the train/val/test split, the    *)
(* class-balanced sampler, train_model (epoch loop, best checkpoint) and   *)
(* the learning-rate sweep that drives it.                                 *)
(*                                                                         *)
(* Real numbers are exact fractions <<numerator, denominator>>.  The       *)
(* state_dict of the network is a record of two abstract values: the       *)
(* parameters outside the final layer, and everything else (the final      *)
(* layer and the batch-norm statistics).  The criterion's value on a batch *)
(* is an opaque term <<epoch, phase, batch>>.                              *)
(***************************************************************************)
EXTENDS Integers, Sequences, FiniteSets, TLC

\* ------------------------------------------------------------------ bounds
MaxN == 6          \* SpecData: dataset sizes 3..MaxN
MaxClass == 1      \* SpecData: labels are 0..MaxClass
MaxRunN == 8       \* Spec: dataset sizes 3..MaxRunN whose split succeeds
MaxEpochs == 2     \* Spec: num_epochs is drawn from 0..MaxEpochs
MaxWeight == 1     \* Spec: each part of a state_dict is a value of 0..MaxWeight
batch_size == 1    \* scaled down from the source's 20 (cpu) / 64 (cuda)
step_size == 1     \* scaled down from the source's StepLR(step_size=7)

Weights == 0..MaxWeight

\* the pretrained parameters resnet18(weights='IMAGENET1K_V1') loads
IMAGENET1K_V1 == 0
StateDict(b, h) == [backbone |-> b, head |-> h]
\* the model after lines 186-196: pretrained backbone, newly initialised fc
FreshModels == {StateDict(IMAGENET1K_V1, h) : h \in Weights}
Labels == 0..MaxClass

\* ------------------------------------------------------- exact arithmetic
Frac(n, d) == <<n, d>>
Zero == Frac(0, 1)
FGt(a, b) == a[1] * b[2] > b[1] * a[2]
FEq(a, b) == a[1] * b[2] = b[1] * a[2]
FGe(a, b) == a[1] * b[2] >= b[1] * a[2]

Min(S) == CHOOSE x \in S : \A y \in S : x <= y
Range(s) == {s[i] : i \in 1..Len(s)}

RECURSIVE SortedSeq(_)
SortedSeq(S) == IF S = {} THEN <<>> ELSE <<Min(S)>> \o SortedSeq(S \ {Min(S)})

\* s[from:to] of Python, on a 1-indexed sequence
Slice(s, from, to) == [k \in 1..(to - from) |-> s[from + k]]

VARIABLES
  pc,               \* position of the script
  error,            \* name of the exception that ended the script, "" if none
  \* ---- dataset, split and sampler
  N,                \* len(dataset)
  targets,          \* dataset.targets, targets[i + 1] is the label of index i
  train_indices, val_indices, test_indices,   \* Subset.indices of the three subsets
  sampler,          \* the WeightedRandomSampler: <<>> before it is built
  dataset_sizes,    \* the dict of line 93
  \* ---- the world the run is measured in
  num_epochs,       \* line 57 / 60
  accOf,            \* accOf[w]: validation examples a model with state_dict w gets right
  \* ---- sweep and train_model
  model_conv,       \* the live state_dict
  opt_lr,           \* the learning rate optimizer_conv steps with
  returned,         \* what the latest call of train_model returned, <<>> before the first
  plots,            \* the losses_<lr>.png files written: <<lr, train_losses, val_losses>>
  training,         \* the mode flag set by model.train() / model.eval()
  li,               \* learning rates of the list already consumed by the for loop
  lr,               \* the global lr of line 204, as a fraction
  last_epoch,       \* StepLR.last_epoch of the current scheduler
  checkpoint,       \* best_model_params.pt: <<>> when there is no file, else <<state_dict>>
  best_acc,
  epoch,
  ph,               \* position in the phase list of line 115
  batch,            \* batches of the current phase already iterated
  running_loss,
  running_corrects,
  train_losses, val_losses,
  \* ---- history of the current run (not program state)
  startParams,      \* state_dict when train_model was entered
  epochParams,      \* state_dict at the end of each finished epoch
  epochAccs,        \* epoch_acc of each finished validation phase
  saves,            \* the torch.save calls of the run: <<epoch, phase>> of each
  evalParams,       \* state_dicts the batches of the latest validation phase were run on
  phases,           \* the phases finished in the run, in order
  seen,             \* examples iterated in the current phase
  reads,            \* torch.load calls of the run
  prevBest,         \* best_acc the run before the current one ended with
  restored          \* <<state_dict the latest finished run loaded back>>

dataVars == <<N, targets, train_indices, val_indices, test_indices, sampler, dataset_sizes>>
worldVars == <<num_epochs, accOf>>
runVars == <<model_conv, opt_lr, returned, plots, training, li, lr, last_epoch, checkpoint, best_acc, epoch, ph, batch,
             running_loss, running_corrects, train_losses, val_losses>>
histVars == <<startParams, epochParams, epochAccs, saves, evalParams, phases, seen, reads,
              prevBest, restored>>
vars == <<pc, error, dataVars, worldVars, runVars, histVars>>

\* ----------------------------------------------------------------- split
\* int(0.6 * n): the double 0.6 * n truncates to floor(3n/5) for the sizes modelled
train_size(n) == (3 * n) \div 5
val_size(n) == (n - train_size(n)) \div 2
test_size(n) == val_size(n)

\* random_split raises ValueError unless the lengths sum to len(dataset)
SplitLengthsOk(n) == train_size(n) + val_size(n) + test_size(n) = n

\* randperm(n).tolist(): every ordering of 0..n-1
RECURSIVE Perms(_)
Perms(S) == IF S = {} THEN {<<>>}
            ELSE UNION {{<<x>> \o p : p \in Perms(S \ {x})} : x \in S}
randperm(n) == Perms(0..(n - 1))

\* ----------------------------------------------------- balanced_sampler
y_train_of(tg, idx) == [j \in 1..Len(idx) |-> tg[idx[j] + 1]]
unique(y) == SortedSeq(Range(y))
CountOf(y, t) == Cardinality({j \in 1..Len(y) : y[j] = t})
class_sample_count(y) == [k \in 1..Len(unique(y)) |-> CountOf(y, unique(y)[k])]
weight(y) == [k \in 1..Len(unique(y)) |-> Frac(1, class_sample_count(y)[k])]
\* weight[t] for t in y_train: weight is indexed by the label itself
WeightIndexOk(y) == \A j \in 1..Len(y) : y[j] + 1 <= Len(weight(y))
samples_weight(y) == [j \in 1..Len(y) |-> weight(y)[y[j] + 1]]

\* lines 93-94: "train" is len(train_dataset), "val" is len(test_dataset)
make_dataset_sizes_ValFromTrain(tr, va, te) == [train |-> Len(tr), val |-> Len(tr)]
make_dataset_sizes(tr, va, te) == [train |-> Len(tr), val |-> Len(te)]

NoData == /\ train_indices = <<>> /\ val_indices = <<>> /\ test_indices = <<>>
          /\ sampler = <<>> /\ dataset_sizes = <<>>

NoRun == /\ model_conv = StateDict(IMAGENET1K_V1, 0) /\ training = TRUE
         /\ opt_lr = Zero /\ returned = <<>> /\ plots = <<>> /\ reads = 0 /\ prevBest = Zero /\ li = 0 /\ lr = Zero /\ last_epoch = 0
         /\ checkpoint = <<>> /\ best_acc = Zero /\ epoch = 0 /\ ph = 1 /\ batch = 0
         /\ running_loss = <<>> /\ running_corrects = 0
         /\ train_losses = <<>> /\ val_losses = <<>>
         /\ startParams = model_conv /\ epochParams = <<>> /\ epochAccs = <<>> /\ saves = <<>>
         /\ evalParams = {} /\ phases = <<>> /\ seen = 0 /\ restored = <<>>

InitData ==
  /\ pc = "split" /\ error = ""
  /\ N \in 3..MaxN
  /\ targets \in [1..N -> Labels]
  /\ NoData
  /\ num_epochs = 0 /\ accOf = <<>>
  /\ NoRun

\* lines 43-48
Split ==
  /\ pc = "split"
  /\ IF SplitLengthsOk(N)
     THEN \E p \in randperm(N) :
            /\ train_indices' = Slice(p, 0, train_size(N))
            /\ val_indices' = Slice(p, train_size(N), train_size(N) + val_size(N))
            /\ test_indices' = Slice(p, train_size(N) + val_size(N), N)
            /\ pc' = "sampler" /\ error' = error
     ELSE /\ pc' = "error" /\ error' = "ValueError"
          /\ UNCHANGED <<train_indices, val_indices, test_indices>>
  /\ UNCHANGED <<N, targets, sampler, dataset_sizes, worldVars, runVars, histVars>>

\* lines 70-94
BalancedSampler ==
  /\ pc = "sampler"
  /\ LET y == y_train_of(targets, train_indices) IN
       IF WeightIndexOk(y)
       THEN /\ sampler' = [weights |-> samples_weight(y), num_samples |-> Len(y)]
            /\ dataset_sizes' = make_dataset_sizes(train_indices, val_indices, test_indices)
            /\ pc' = "loaded" /\ error' = error
       ELSE /\ pc' = "error" /\ error' = "IndexError"
            /\ UNCHANGED <<sampler, dataset_sizes>>
  /\ UNCHANGED <<N, targets, train_indices, val_indices, test_indices,
                 worldVars, runVars, histVars>>

NextData == Split \/ BalancedSampler
SpecData == InitData /\ [][NextData]_vars

\* ------------------------------------------------------ sweep, train_model
learning_rates == <<Frac(5, 10000), Frac(1, 1000), Frac(5, 1000),
                    Frac(1, 100), Frac(5, 100), Frac(1, 10)>>

phase_list_ValFirst == <<"val", "train">>
phase_list == <<"train", "val">>

\* examples one pass over dataloaders[p] yields: the sampler's draws, the
\* validation subset
LoaderLen(p) == IF p = "train" THEN sampler.num_samples ELSE Len(val_indices)
NumBatches(p) == (LoaderLen(p) + batch_size - 1) \div batch_size
BatchLen(p, b) == IF LoaderLen(p) - b * batch_size < batch_size
                  THEN LoaderLen(p) - b * batch_size ELSE batch_size

\* lines 189-190 and 205: requires_grad is False outside fc and the optimizer
\* holds the fc parameters only, so a step leaves the backbone as it is
backbone_step_Trainable(b) == Weights
backbone_step(b) == {b}

\* state_dicts after the batch: backward and optimizer.step() run in the
\* train phase only (a training forward pass also moves the batch-norm
\* statistics); the new value depends on the data drawn
optimizer_step_AnyPhase(p, w) ==
  {StateDict(b, h) : b \in backbone_step(w.backbone), h \in Weights}
optimizer_step(p, w) ==
  IF p = "train" THEN {StateDict(b, h) : b \in backbone_step(w.backbone), h \in Weights}
  ELSE {w}

\* torch.sum(preds == labels.data) of batch b.  In eval mode the prediction
\* of an example depends on the state_dict alone: accOf[w] of the examples
\* are right, listed first.  In train mode it depends on the draw.
Corrects(p, w, b) ==
  IF p = "train" THEN 0..BatchLen(p, b)
  ELSE {Cardinality({i \in (b * batch_size + 1)..(b * batch_size + BatchLen(p, b)) :
                        i <= accOf[w]})}

scheduler_step_EveryPhase(p, le) == le + 1
scheduler_step(p, le) == IF p = "train" THEN le + 1 ELSE le

\* StepLR.get_lr() after a step that brought last_epoch to le: the current
\* rate times gamma when le is a positive multiple of step_size
gamma == Frac(1, 10)
get_lr(le, cur) ==
  IF le = 0 \/ le % step_size # 0 THEN cur
  ELSE Frac(cur[1] * gamma[1], cur[2] * gamma[2])

\* optim.SGD(model_conv.fc.parameters(), lr=lr, ...) of line 205
optimizer_lr_Reused(candidate, old) == old
optimizer_lr(candidate, old) == candidate

\* best_acc = 0.0 of line 108
initial_best_acc_Carried(prev) == prev
initial_best_acc(prev) == Zero

\* leaving the with block of line 104 removes the directory and the file in it
tempdir_cleanup_Kept(file) == file
tempdir_cleanup(file) == <<>>

IsBetter_Ge(acc, best) == FGe(acc, best)
IsBetter_Always(acc, best) == TRUE
IsBetter(acc, best) == FGt(acc, best)
ShouldSave_AnyPhase(p, acc, best) == IsBetter(acc, best)
ShouldSave(p, acc, best) == p = "val" /\ IsBetter(acc, best)

\* the model object handed to train_model at line 211
ModelForRun_Reset(live) == StateDict(IMAGENET1K_V1, 0)
ModelForRun(live) == live

\* model.load_state_dict(torch.load(best_model_params_path))
load_state_dict_Skipped(live, file) == live
load_state_dict(live, file) == file[1]

\* what the split of a dataset of n images leaves behind at line 94
RunSizes == {n \in 3..MaxRunN : SplitLengthsOk(n)}
Iota(from, to) == [k \in 1..(to - from) |-> from + k - 1]

Init ==
  /\ pc = "sweep" /\ error = ""
  /\ N \in RunSizes
  /\ targets = [i \in 1..N |-> 0]
  /\ train_indices = Iota(0, train_size(N))
  /\ val_indices = Iota(train_size(N), train_size(N) + val_size(N))
  /\ test_indices = Iota(train_size(N) + val_size(N), N)
  /\ sampler = [weights |-> samples_weight(y_train_of(targets, train_indices)),
                num_samples |-> Len(train_indices)]
  /\ dataset_sizes = make_dataset_sizes(train_indices, val_indices, test_indices)
  /\ num_epochs \in 0..MaxEpochs
  /\ accOf \in [FreshModels -> 0..Len(val_indices)]
  /\ model_conv \in FreshModels
  /\ opt_lr = Zero /\ returned = <<>> /\ plots = <<>> /\ reads = 0 /\ prevBest = Zero
  /\ training = TRUE /\ li = 0 /\ lr = Zero /\ last_epoch = 0
  /\ checkpoint = <<>> /\ best_acc = Zero /\ epoch = 0 /\ ph = 1 /\ batch = 0
  /\ running_loss = <<>> /\ running_corrects = 0
  /\ train_losses = <<>> /\ val_losses = <<>>
  /\ startParams = model_conv /\ epochParams = <<>> /\ epochAccs = <<>> /\ saves = <<>>
  /\ evalParams = {} /\ phases = <<>> /\ seen = 0 /\ restored = <<>>

\* lines 116-122
BeginPhase(p) ==
  /\ training' = (p = "train")
  /\ running_loss' = <<>>
  /\ running_corrects' = 0
  /\ batch' = 0
  /\ seen' = 0
  /\ evalParams' = IF p = "val" THEN {} ELSE evalParams

\* lines 203-211 and 99-110: the next learning rate, a fresh optimizer and
\* scheduler, then train_model up to the first phase
StartRun ==
  /\ pc = "sweep" /\ li < Len(learning_rates)
  /\ li' = li + 1
  /\ lr' = learning_rates[li + 1]
  /\ opt_lr' = optimizer_lr(lr', opt_lr)
  /\ last_epoch' = 0
  /\ model_conv' = ModelForRun(model_conv)
  /\ train_losses' = <<>> /\ val_losses' = <<>>
  /\ checkpoint' = <<model_conv'>>
  /\ best_acc' = initial_best_acc(best_acc)
  /\ epoch' = 0 /\ ph' = 1
  /\ startParams' = model_conv' /\ epochParams' = <<>> /\ epochAccs' = <<>>
  /\ saves' = <<<<0, "start">>>> /\ phases' = <<>> /\ reads' = 0
  /\ prevBest' = best_acc
  /\ IF num_epochs > 0
     THEN pc' = "batch" /\ BeginPhase(phase_list[1])
     ELSE pc' = "complete"
          /\ UNCHANGED <<training, running_loss, running_corrects, batch, seen, evalParams>>
  /\ UNCHANGED <<error, dataVars, worldVars, returned, plots, restored>>

\* lines 125-146: one batch of the current phase
Batch(p) ==
  /\ pc = "batch" /\ phase_list[ph] = p
  /\ batch < NumBatches(p)
  /\ \E w \in optimizer_step(p, model_conv), c \in Corrects(p, model_conv, batch) :
       /\ model_conv' = w
       /\ running_corrects' = running_corrects + c
  /\ running_loss' = Append(running_loss, <<<<epoch, p, batch>>, BatchLen(p, batch)>>)
  /\ batch' = batch + 1
  /\ seen' = seen + BatchLen(p, batch)
  /\ evalParams' = IF p = "val" THEN evalParams \cup {model_conv} ELSE evalParams
  /\ UNCHANGED <<pc, error, dataVars, worldVars, training, li, lr, last_epoch, checkpoint,
                 best_acc, epoch, ph, train_losses, val_losses, opt_lr, returned, plots,
                 startParams, epochParams, epochAccs, saves, phases, reads, prevBest, restored>>

TrainBatch == Batch("train")
ValBatch == Batch("val")

\* lines 147-164: the end of the current phase, up to the next phase
PhaseEnd(p) ==
  /\ pc = "batch" /\ phase_list[ph] = p
  /\ batch = NumBatches(p)
  /\ last_epoch' = scheduler_step(p, last_epoch)
  /\ opt_lr' = IF last_epoch' = last_epoch THEN opt_lr ELSE get_lr(last_epoch', opt_lr)
  /\ LET epoch_loss == Frac(running_loss, dataset_sizes[p])
         epoch_acc == Frac(running_corrects, dataset_sizes[p])
     IN /\ train_losses' = IF p = "train" THEN Append(train_losses, epoch_loss)
                           ELSE train_losses
        /\ val_losses' = IF p = "train" THEN val_losses
                         ELSE Append(val_losses, epoch_loss)
        /\ IF ShouldSave(p, epoch_acc, best_acc)
           THEN /\ best_acc' = epoch_acc
                /\ checkpoint' = <<model_conv>>
                /\ saves' = Append(saves, <<epoch, p>>)
           ELSE UNCHANGED <<best_acc, checkpoint, saves>>
        /\ epochAccs' = IF p = "val" THEN Append(epochAccs, epoch_acc) ELSE epochAccs
  /\ phases' = Append(phases, p)
  /\ IF ph < Len(phase_list)
     THEN /\ ph' = ph + 1 /\ epoch' = epoch /\ epochParams' = epochParams
          /\ pc' = pc /\ BeginPhase(phase_list[ph + 1])
     ELSE /\ epoch' = epoch + 1
          /\ epochParams' = Append(epochParams, model_conv)
          /\ IF epoch + 1 < num_epochs
             THEN ph' = 1 /\ pc' = pc /\ BeginPhase(phase_list[1])
             ELSE pc' = "complete"
                  /\ UNCHANGED <<ph, training, running_loss, running_corrects, batch,
                                 seen, evalParams>>
  /\ UNCHANGED <<error, dataVars, worldVars, model_conv, li, lr, returned, plots,
                 startParams, reads, prevBest, restored>>

TrainPhaseEnd == PhaseEnd("train")
ValPhaseEnd == PhaseEnd("val")

\* lines 166-182: reload the best checkpoint, leave the temporary directory
\* (which deletes the file), return the model to line 211
RunEnd ==
  /\ pc = "complete"
  /\ model_conv' = load_state_dict(model_conv, checkpoint)
  /\ restored' = <<model_conv'>>
  /\ reads' = reads + 1
  /\ plots' = Append(plots, <<lr, train_losses, val_losses>>)
  /\ checkpoint' = tempdir_cleanup(checkpoint)
  /\ returned' = <<model_conv'>>
  /\ pc' = "sweep"
  /\ UNCHANGED <<error, dataVars, worldVars, training, li, lr, opt_lr, last_epoch, best_acc, epoch,
                 ph, batch, running_loss, running_corrects, train_losses, val_losses,
                 startParams, epochParams, epochAccs, saves, evalParams, phases, seen, prevBest>>

Next == StartRun \/ TrainBatch \/ TrainPhaseEnd \/ ValBatch \/ ValPhaseEnd \/ RunEnd
Spec == Init /\ [][Next]_vars

\* ================================================================ claims
InRun == pc \in {"batch", "complete"}
Finished == pc = "sweep" /\ li > 0
InVal == pc = "batch" /\ phase_list[ph] = "val"
SweepDone == pc = "sweep" /\ li = Len(learning_rates)

\* the earliest position of a maximum of a non-empty sequence of fractions
BestEpoch(accs) ==
  CHOOSE e \in 1..Len(accs) :
    /\ \A k \in 1..Len(accs) : FGe(accs[e], accs[k])
    /\ \A k \in 1..(e - 1) : FGt(accs[e], accs[k])

\* the maximum of 0 and the first k entries
PrefixMax(accs, k) ==
  IF k = 0 THEN Zero
  ELSE LET m == SubSeq(accs, 1, k)[BestEpoch(SubSeq(accs, 1, k))]
       IN IF FGt(m, Zero) THEN m ELSE Zero

\* the epochs (counted from 0) among the first k whose accuracy beat every earlier one and 0
RECURSIVE ImprovingEpochs(_, _)
ImprovingEpochs(accs, k) ==
  IF k = 0 THEN <<>>
  ELSE ImprovingEpochs(accs, k - 1)
         \o (IF FGt(accs[k], PrefixMax(accs, k - 1)) THEN <<k - 1>> ELSE <<>>)

\* one evaluation pass over the validation subset with state_dict w
RECURSIVE EvalCorrects(_, _)
EvalCorrects(w, nb) ==
  IF nb = 0 THEN 0
  ELSE EvalCorrects(w, nb - 1) + (CHOOSE c \in Corrects("val", w, nb - 1) : TRUE)
Evaluate(w) == Frac(EvalCorrects(w, NumBatches("val")), dataset_sizes["val"])

\* C1: when train_model has returned, all num_epochs epochs have run and the
\* model holds the state_dict of the end of the earliest epoch with the
\* highest validation accuracy if that accuracy is above 0, and the
\* state_dict it was entered with otherwise.
C1_RestoresEarliestBest ==
  Finished =>
    /\ Len(epochParams) = num_epochs
    /\ Len(epochAccs) = num_epochs
    /\ model_conv = IF num_epochs > 0 /\ FGt(epochAccs[BestEpoch(epochAccs)], Zero)
                    THEN epochParams[BestEpoch(epochAccs)]
                    ELSE startParams

\* a finished run whose last epoch was not the best and whose last state_dict was dropped
C1_Witness ==
  /\ Finished /\ num_epochs >= 2
  /\ FGt(epochAccs[BestEpoch(epochAccs)], Zero)
  /\ BestEpoch(epochAccs) < num_epochs
  /\ epochParams[num_epochs] # model_conv

\* C2 as stated, for the runs of at least one epoch: after the run,
\* evaluating the restored model on the validation subset gives best_acc.
C2_Original == (Finished /\ num_epochs >= 1) => FEq(Evaluate(model_conv), best_acc)

\* C2 as amended: after every run in which some epoch's validation accuracy
\* was above 0, evaluating the restored model on the validation subset gives
\* best_acc.
C2_RestoredReproducesBest ==
  (Finished /\ FGt(best_acc, Zero)) => FEq(Evaluate(model_conv), best_acc)

\* a finished run that restored an earlier epoch: the last epoch scored lower
C2_Witness ==
  /\ Finished /\ num_epochs >= 2 /\ FGt(best_acc, Zero)
  /\ FGt(best_acc, epochAccs[num_epochs])
  /\ ~FEq(Evaluate(epochParams[num_epochs]), best_acc)

\* C3: from the start of a run on, best_acc is the maximum of 0 and the
\* validation accuracies of the epochs finished so far (0 before the first),
\* so it never decreases from one epoch to the next.
C3_BestAccIsRunningMax ==
  li > 0 =>
    /\ FEq(best_acc, PrefixMax(epochAccs, Len(epochAccs)))
    /\ \A k \in 0..Len(epochAccs) : FGe(best_acc, PrefixMax(epochAccs, k))
    /\ (epochAccs = <<>> => best_acc = Zero)

\* an epoch scored below the best so far and best_acc kept the earlier value
C3_Witness ==
  /\ InRun /\ Len(epochAccs) >= 2
  /\ FGt(best_acc, epochAccs[Len(epochAccs)])
  /\ FEq(best_acc, epochAccs[1])

\* C4: the checkpoint is written at the start of the run and then exactly at
\* the end of each validation phase whose accuracy is strictly above best_acc;
\* no other validation phase and no train phase writes it or changes best_acc.
C4_SavesExactlyOnImprovement ==
  (li > 0) =>
    LET imp == ImprovingEpochs(epochAccs, Len(epochAccs)) IN
      /\ saves = <<<<0, "start">>>> \o [i \in 1..Len(imp) |-> <<imp[i], "val">>]
      /\ (InRun => checkpoint = <<IF imp = <<>> THEN startParams
                                   ELSE epochParams[imp[Len(imp)] + 1]>>)
      /\ FEq(best_acc, PrefixMax(epochAccs, Len(epochAccs)))

\* a validation phase that equalled a positive best_acc wrote nothing, after one that did write
C4_Witness ==
  /\ InRun /\ Len(epochAccs) >= 2 /\ Len(saves) = 2
  /\ FGt(best_acc, Zero)
  /\ FEq(epochAccs[2], epochAccs[1])
  /\ epochParams[2] # epochParams[1]
  /\ checkpoint = <<epochParams[1]>>

\* C5: during a validation phase the state_dict stays what it was for the
\* phase's first batch, whatever the number of batches; the state_dict at the
\* end of the epoch, and the one a validation phase saves, is the one every
\* batch of that phase was run on.
C5_ValLeavesModelAlone ==
  /\ InVal => evalParams \subseteq {model_conv}
  /\ (InRun /\ ~InVal /\ Len(epochParams) > 0) =>
        evalParams = {epochParams[Len(epochParams)]}
  /\ (InRun /\ ~InVal /\ Len(saves) > 1 /\ saves[Len(saves)][1] = Len(epochAccs) - 1) =>
        evalParams = {checkpoint[1]}

\* a validation phase of several batches, after training moved the model, that then saved it
C5_Witness ==
  /\ pc = "complete" /\ NumBatches("val") >= 2
  /\ model_conv # startParams
  /\ saves[Len(saves)] = <<num_epochs - 1, "val">>
  /\ checkpoint = <<model_conv>>

\* C6: the phases of a run are train, val, train, val, ... with nothing
\* skipped or repeated; each phase has appended one loss to its own list, the
\* i-th entry being the loss of epoch i's batches; when the run is over both
\* lists have num_epochs entries.
ExpectedLoss(p, e) ==
  Frac([b \in 1..NumBatches(p) |-> <<<<e, p, b - 1>>, BatchLen(p, b - 1)>>], dataset_sizes[p])

C6_PhasesAlternateLossesAppend ==
  li > 0 =>
    /\ \A i \in 1..Len(phases) : phases[i] = IF i % 2 = 1 THEN "train" ELSE "val"
    /\ pc = "batch" => Len(phases) = 2 * epoch + (ph - 1)
    /\ pc # "batch" => Len(phases) = 2 * num_epochs
    /\ Len(train_losses) = (Len(phases) + 1) \div 2
    /\ Len(val_losses) = Len(phases) \div 2
    /\ \A i \in 1..Len(train_losses) : train_losses[i] = ExpectedLoss("train", i - 1)
    /\ \A i \in 1..Len(val_losses) : val_losses[i] = ExpectedLoss("val", i - 1)
    /\ Finished => Len(train_losses) = num_epochs /\ Len(val_losses) = num_epochs

\* a finished run of at least two epochs with several batches per train phase
C6_Witness ==
  /\ Finished /\ num_epochs >= 2 /\ NumBatches("train") >= 2
  /\ Len(train_losses) = num_epochs /\ Len(val_losses) = num_epochs
  /\ phases[Len(phases)] = "val"

\* C7: the scheduler has stepped e times while epoch e trains and e + 1 times
\* while it validates, and num_epochs times when the run is over, whatever the
\* number of batches.
C7_SchedulerStepsOncePerEpoch ==
  li > 0 =>
    /\ (pc = "batch" /\ phase_list[ph] = "train") => last_epoch = epoch
    /\ InVal => last_epoch = epoch + 1
    /\ pc # "batch" => last_epoch = num_epochs

\* the second epoch's validation phase, several batches in, after a train phase of several batches
C7_Witness ==
  /\ InVal /\ epoch = 1 /\ batch >= 2 /\ NumBatches("train") >= 2
  /\ last_epoch = 2

\* C8: the candidates are taken in list order; every run after the first
\* starts from the state_dict the previous run restored; the model left by a
\* run, and so by the sweep, is what that run restored.
C8_SweepContinuesModel ==
  /\ li \in 0..Len(learning_rates)
  /\ li > 0 => lr = learning_rates[li]
  /\ (InRun /\ li >= 2) => restored = <<startParams>>
  /\ Finished => model_conv = restored[1]
  /\ (pc = "sweep" /\ li = 0) => restored = <<>>

\* the sweep is over; its last run started from a restored state_dict that
\* training had changed, and the live model is what that run restored
C8_Witness ==
  /\ SweepDone /\ num_epochs >= 1
  /\ model_conv = restored[1]
  /\ model_conv # startParams
  /\ startParams.head # 0

\* C9 as stated: once the split has been attempted on a dataset of N >= 3
\* images, the three subsets are pairwise disjoint and together hold every
\* index of 0..N-1.
IndexSet(idx) == Range(idx)
C9_Original ==
  (pc # "split" /\ pc # "sweep" /\ N >= 3) =>
    /\ IndexSet(train_indices) \cap IndexSet(val_indices) = {}
    /\ IndexSet(train_indices) \cap IndexSet(test_indices) = {}
    /\ IndexSet(val_indices) \cap IndexSet(test_indices) = {}
    /\ Len(train_indices) + Len(val_indices) + Len(test_indices) = N
    /\ IndexSet(train_indices) \cup IndexSet(val_indices) \cup IndexSet(test_indices)
         = 0..(N - 1)

\* C10 as stated: once balanced_sampler has been called on a training subset,
\* it has given every training example the weight 1 / (training examples of
\* the same label), whatever labels occur in the subset.
C10_Original ==
  (pc = "loaded" \/ error = "IndexError") =>
    LET y == y_train_of(targets, train_indices) IN
      /\ sampler # <<>>
      /\ Len(sampler.weights) = Len(y)
      /\ \A j \in 1..Len(y) : sampler.weights[j] = Frac(1, CountOf(y, y[j]))
\* C11: in both phases the divisor of the epoch loss and accuracy is the
\* number of examples the phase iterated (the sampler's draws, the validation
\* subset), the correct predictions never exceed the examples iterated, and
\* every epoch accuracy lies in [0, 1].
C11_DivisorIsExamplesIterated ==
  /\ pc = "batch" =>
       /\ seen <= LoaderLen(phase_list[ph])
       /\ running_corrects >= 0 /\ running_corrects <= seen
       /\ batch = NumBatches(phase_list[ph]) =>
            /\ dataset_sizes[phase_list[ph]] = seen
            /\ seen = LoaderLen(phase_list[ph])
            /\ seen > 0
            /\ FGe(Frac(running_corrects, dataset_sizes[phase_list[ph]]), Zero)
            /\ FGe(Frac(1, 1), Frac(running_corrects, dataset_sizes[phase_list[ph]]))
  /\ \A i \in 1..Len(epochAccs) :
       /\ epochAccs[i][2] = Len(val_indices)
       /\ FGe(epochAccs[i], Zero) /\ FGe(Frac(1, 1), epochAccs[i])

\* a validation phase over several batches has iterated the whole subset,
\* which is smaller than the training subset, and got part of it right
C11_Witness ==
  /\ InVal /\ batch = NumBatches("val") /\ batch >= 2
  /\ seen = dataset_sizes["val"] /\ dataset_sizes["val"] < dataset_sizes["train"]
  /\ running_corrects > 0 /\ running_corrects < seen
\* C12 as stated: once balanced_sampler has been called on a training subset
\* in which a class of the dataset has no example, the script has stopped
\* with an error and no sampler has been built.
C12_Original ==
  ((pc = "loaded" \/ error = "IndexError")
     /\ \E c \in Range(targets) : CountOf(y_train_of(targets, train_indices), c) = 0) =>
    /\ pc = "error"
    /\ sampler = <<>>

\* C13 as stated: once the split has been attempted on a dataset of N >= 3
\* images it has completed without error, with floor(0.6 N) training indices
\* and floor((N - train) / 2) validation and test indices each; an odd
\* remainder leaves exactly one index out of the three subsets.
C13_Original ==
  (pc # "split" /\ pc # "sweep" /\ N >= 3) =>
    /\ error # "ValueError"
    /\ Len(train_indices) = (3 * N) \div 5
    /\ Len(val_indices) = (N - Len(train_indices)) \div 2
    /\ Len(test_indices) = Len(val_indices)
    /\ Cardinality((0..(N - 1)) \ (Range(train_indices) \cup Range(val_indices)
                                     \cup Range(test_indices)))
         = (N - Len(train_indices)) % 2
\* C14 as stated: when a run has returned, the call has handed back the
\* restored model together with the run's train losses, validation losses and
\* best_acc.
C14_Original ==
  Finished => returned = <<model_conv, train_losses, val_losses, best_acc>>

\* C15: every optimizer step of epoch e of the run for candidate c is taken
\* with the rate c * gamma^floor(e / step_size), whatever the earlier
\* candidates did to their optimizers and schedulers.
RECURSIVE Pow(_, _)
Pow(b, k) == IF k = 0 THEN 1 ELSE b * Pow(b, k - 1)
DecayedRate(c, e) == Frac(c[1] * Pow(gamma[1], e \div step_size),
                          c[2] * Pow(gamma[2], e \div step_size))

C16_BackboneFrozen ==
  /\ model_conv.backbone = IMAGENET1K_V1
  /\ checkpoint # <<>> => checkpoint[1].backbone = IMAGENET1K_V1
  /\ restored # <<>> => restored[1].backbone = IMAGENET1K_V1

\* the sweep is over, its last run trained, wrote the checkpoint again and
\* restored a final layer other than the one it started with
C16_Witness ==
  /\ SweepDone /\ num_epochs >= 1 /\ Len(saves) >= 2
  /\ model_conv.head # startParams.head
  /\ model_conv.backbone = IMAGENET1K_V1

\* C17: the checkpoint file exists from the start of a run until the run's
\* only read of it, which comes after the last epoch; it is gone when
\* train_model has returned, and no file is there between runs.
C17_CheckpointLifecycle ==
  /\ InRun => /\ Len(checkpoint) = 1
              /\ Len(saves) >= 1 /\ saves[1] = <<0, "start">>
              /\ reads = 0
  /\ pc = "batch" => epoch < num_epochs
  /\ pc = "complete" => epoch = num_epochs \/ num_epochs = 0
  /\ pc = "sweep" => checkpoint = <<>>
  /\ Finished => reads = 1
  /\ (pc = "sweep" /\ li = 0) => reads = 0

\* a later run that overwrote its checkpoint has returned: read once, file gone
C17_Witness ==
  /\ Finished /\ li >= 2 /\ Len(saves) >= 2
  /\ reads = 1 /\ checkpoint = <<>>
  /\ model_conv = epochParams[saves[Len(saves)][1] + 1]

\* C18: every run starts with best_acc = 0, so best_acc is the maximum (or 0)
\* of the run's own validation accuracies, and what the run checkpoints and
\* restores is the state_dict it started with or one of its own epochs.
C18_BestAccPerCandidate ==
  li > 0 =>
    /\ (Len(epochAccs) = 0) => best_acc = Zero
    /\ \A i \in 1..Len(epochAccs) : FGe(best_acc, epochAccs[i])
    /\ \/ best_acc = Zero
       \/ \E i \in 1..Len(epochAccs) : best_acc = epochAccs[i]
    /\ InRun => checkpoint[1] \in {startParams} \cup Range(epochParams)
    /\ Finished => model_conv \in {startParams} \cup Range(epochParams)

\* a later run ended with a positive best_acc below the one the run before
\* it had reached, restoring one of its own epochs
C18_Witness ==
  /\ Finished /\ li >= 2 /\ num_epochs >= 1
  /\ FGt(prevBest, best_acc)
  /\ FGt(best_acc, Zero)
  /\ Len(saves) >= 2
====
